---- MODULE Spec2Model ----
(***************************************************************************)
(* A model of the cascade stage of Deformable Shape Tracking (DEST):       *)
(* src/src/core/shape.cpp (alignment, nearest landmark, anchoring) and     *)
(* src/src/core/regressor.cpp (Regressor: fit, predict, save, load, copy). *)
(*                                                                         *)
(* Numbers.  The code computes in float (binary32).  The model computes on *)
(* the floats that are integers: every input is one, and the result of an  *)
(* operation is rounded once, to the nearest of them, ties to even.  So    *)
(* + - * are exact below 2^24 and lose the low bits above, and a quotient  *)
(* is rounded to an integer.  A division by zero gives NaN, which every    *)
(* later operation propagates and no comparison accepts.                   *)
(*                                                                         *)
(* Matrices.  A 2 x n matrix (Shape, ShapeResidual, PixelCoordinates) is   *)
(* the sequence of its n columns, each a pair <<x, y>>.  Indices into a    *)
(* matrix are 0-based as in the code: Col(m, i) is m.col(i).  A 2 x 2      *)
(* matrix is the pair of its rows.                                         *)
(***************************************************************************)
EXTENDS Integers, Sequences, FiniteSets

VARIABLES
    ptr,      \* ptr[r]: the _data pointer of Regressor object r (a heap cell, or Null)
    heap,     \* heap[c]: the Regressor::data held in cell c
    live,     \* the allocated cells
    saved,    \* the flatbuffer written by the last save(), with the data it was written from
    last,     \* the last call made: its arguments, what it returned, the numbers it divided
              \* by; for a fit, what it handed to each Tree::fit, in call order; for a load,
              \* the data the regressor held before
    arg       \* the argument drawn for a call of one of the geometry functions

vars == <<ptr, heap, live, saved, last, arg>>

----------------------------------------------------------------------------
(* Bounds of the model.                                                    *)

\* Most trees per stage (params.numTrees ranges over 1..MaxTrees).
MaxTrees == 3
\* Most landmarks of a shape handed to the geometry functions.
MaxL == 3
\* Coordinates of those shapes and query points range over 0..MaxCoord.
MaxCoord == 1
\* Raw draws of the random source range over 0..RndMax.
RndMax == 2
\* params.numRandomPixelCoordinates of every training.
NumPixels == 2
\* Images are (ImgMax + 1) x (ImgMax + 1) pixels.
ImgMax == 20
\* Learning rates are multiples of 1 / LrDen: learningRate n stands for n / LrDen.
LrDen == 2
\* Most points of a shape whose points all coincide at a large coordinate.
MaxCoincident == 5

----------------------------------------------------------------------------
(* Float arithmetic.                                                       *)

\* The result of 0.f / 0.f (regressor.cpp:132 with no samples); +-inf is folded into it.
NaN == -2147483647

\* std::numeric_limits<float>::max(): above every distance the model computes.
FLT_MAX == 2147483647

\* 2^24, a float's significand having 24 bits: below this magnitude every integer
\* is a float
ExactBelow == 16777216

\* The distance between neighbouring floats at magnitude x >= ExactBelow
RECURSIVE Spacing(_, _)
Spacing(x, u) == IF x \div u < ExactBelow THEN u ELSE Spacing(x, 2 * u)

\* The quotient a / b, b > 0, rounded to the nearest integer, ties to even
NearestQuotient(a, b) ==
    LET q == a \div b
        r == a % b
    IN  IF 2 * r > b \/ (2 * r = b /\ q % 2 = 1) THEN q + 1 ELSE q

\* The integer x rounded to the nearest multiple of the spacing u, ties to even
RoundTo(x, u) == u * NearestQuotient(x, u)

\* The integer x rounded to the nearest float, ties to even
Round(x) ==
    IF 0 - ExactBelow < x /\ x < ExactBelow
    THEN x
    ELSE RoundTo(x, Spacing(IF x < 0 THEN 0 - x ELSE x, 1))

FAdd(a, b) == IF a = NaN \/ b = NaN THEN NaN ELSE Round(a + b)

FSub(a, b) == IF a = NaN \/ b = NaN THEN NaN ELSE Round(a - b)

FMul(a, b) == IF a = NaN \/ b = NaN THEN NaN ELSE Round(a * b)

\* a / b; the code divides by counts and by a variance only, so b is never negative
FDiv(a, b) == IF a = NaN \/ b = NaN \/ b = 0 THEN NaN ELSE Round(NearestQuotient(a, b))

FLess(a, b) == a # NaN /\ b # NaN /\ a < b

FAbs(a) == IF a = NaN THEN NaN ELSE IF a < 0 THEN 0 - a ELSE a

\* The sum of a sequence's numbers, added up from the first on
RECURSIVE FSumFrom(_, _)
FSumFrom(acc, q) == IF q = <<>> THEN acc ELSE FSumFrom(FAdd(acc, Head(q)), Tail(q))

FSum(q) == IF q = <<>> THEN 0 ELSE FSumFrom(Head(q), Tail(q))

----------------------------------------------------------------------------
(* Eigen matrices.                                                         *)

Col(m, i) == m[i + 1]

\* v[i] of a std::vector, 0-based
At(v, i) == v[i + 1]

\* A function on 1..n as the sequence of its values, each computed once
AsSeq(f) == f \o <<>>

Cols(m) == Len(m)

VAdd(p, q) == <<FAdd(p[1], q[1]), FAdd(p[2], q[2])>>

VSub(p, q) == <<FSub(p[1], q[1]), FSub(p[2], q[2])>>

VScale(c, p) == <<FMul(c, p[1]), FMul(c, p[2])>>

\* (p - q).squaredNorm()
SquaredNorm2(p) == FAdd(FMul(p[1], p[1]), FMul(p[2], p[2]))

\* m1 + m2, m1 - m2, m / n for 2 x n matrices
MAdd(m1, m2) == AsSeq([i \in 1..Len(m1) |-> VAdd(m1[i], m2[i])])

MSub(m1, m2) == AsSeq([i \in 1..Len(m1) |-> VSub(m1[i], m2[i])])

MDivScalar(m, n) == AsSeq([i \in 1..Len(m) |-> <<FDiv(m[i][1], n), FDiv(m[i][2], n)>>])

\* ShapeResidual::Zero(2, n)
Zero(n) == AsSeq([i \in 1..n |-> <<0, 0>>])

\* m.rowwise().mean(): each row's sum divided by the column count
RowwiseMean(m) ==
    <<FDiv(FSum([i \in 1..Len(m) |-> m[i][1]]), Len(m)),
      FDiv(FSum([i \in 1..Len(m) |-> m[i][2]]), Len(m))>>

\* m.rowwise().minCoeff() and maxCoeff(), for a matrix with at least one column
RowwiseMinCoeff(m) ==
    <<CHOOSE v \in {m[i][1] : i \in 1..Len(m)} : \A w \in {m[i][1] : i \in 1..Len(m)} : v <= w,
      CHOOSE v \in {m[i][2] : i \in 1..Len(m)} : \A w \in {m[i][2] : i \in 1..Len(m)} : v <= w>>

RowwiseMaxCoeff(m) ==
    <<CHOOSE v \in {m[i][1] : i \in 1..Len(m)} : \A w \in {m[i][1] : i \in 1..Len(m)} : v >= w,
      CHOOSE v \in {m[i][2] : i \in 1..Len(m)} : \A w \in {m[i][2] : i \in 1..Len(m)} : v >= w>>

\* m.colwise() - v
ColwiseSub(m, v) == AsSeq([i \in 1..Len(m) |-> VSub(m[i], v)])

\* m.squaredNorm()
SquaredNorm(m) == FSum([i \in 1..Len(m) |-> SquaredNorm2(m[i])])

Identity2 == <<<<1, 0>>, <<0, 1>>>>

\* a * b for 2 x 2 matrices
Mul22(a, b) ==
    LET e(r, c) == FAdd(FMul(a[r][1], b[1][c]), FMul(a[r][2], b[2][c]))
    IN  <<<<e(1, 1), e(1, 2)>>, <<e(2, 1), e(2, 2)>>>>

Transpose22(a) == <<<<a[1][1], a[2][1]>>, <<a[1][2], a[2][2]>>>>

Scale22(k, a) ==
    <<<<FMul(k, a[1][1]), FMul(k, a[1][2])>>, <<FMul(k, a[2][1]), FMul(k, a[2][2])>>>>

Det22(a) == FSub(FMul(a[1][1], a[2][2]), FMul(a[1][2], a[2][1]))

Trace22(a) == FAdd(a[1][1], a[2][2])

\* a * p for a 2 x 2 matrix and a column
MulVec(a, p) ==
    <<FAdd(FMul(a[1][1], p[1]), FMul(a[1][2], p[2])),
      FAdd(FMul(a[2][1], p[1]), FMul(a[2][2], p[2]))>>

\* a * b.transpose() for 2 x n matrices: the 2 x 2 matrix of the rows' inner products
MulTransposed(a, b) ==
    LET e(r, c) == FSum([i \in 1..Len(a) |-> FMul(a[i][r], b[i][c])])
    IN  <<<<e(1, 1), e(1, 2)>>, <<e(2, 1), e(2, 2)>>>>

\* m / n for a 2 x 2 matrix
Div22(a, n) ==
    <<<<FDiv(a[1][1], n), FDiv(a[1][2], n)>>, <<FDiv(a[2][1], n), FDiv(a[2][2], n)>>>>

\* A 2 x 2 matrix with its two columns swapped
SwapCols(a) == <<<<a[1][2], a[1][1]>>, <<a[2][2], a[2][1]>>>>

IsDiagonal(a) == a[1][2] = 0 /\ a[2][1] = 0

(* Eigen's two-sided Jacobi SVD of a real 2 x 2 matrix, on the matrices    *)
(* the model hands it: the diagonal ones.  No rotation is applied to such  *)
(* a matrix (both off-diagonal entries are below the threshold), so U and  *)
(* V start as the identity; a singular value is the absolute value of a    *)
(* diagonal entry and U's column takes the entry's sign; the values are    *)
(* then sorted in descending order, swapping the columns of U and V with   *)
(* them (only when the second is strictly larger).                         *)
jacobiSvd(cov) ==
    LET a == cov[1][1]
        d == cov[2][2]
        sgn(v) == IF v < 0 THEN -1 ELSE 1
        U0 == <<<<sgn(a), 0>>, <<0, sgn(d)>>>>
        swap == FAbs(d) > FAbs(a)
    IN  [matrixU |-> IF swap THEN SwapCols(U0) ELSE U0,
         matrixV |-> IF swap THEN SwapCols(Identity2) ELSE Identity2,
         singularValues |-> IF swap THEN <<FAbs(d), FAbs(a)>> ELSE <<FAbs(a), FAbs(d)>>]

----------------------------------------------------------------------------
(* shape.cpp                                                               *)

\* The reflection correction s (shape.cpp:45-54)
reflectionCorrection(cov, svd) ==
    LET detCov == Det22(cov)
        detUV == FMul(Det22(svd.matrixU), Det22(svd.matrixV))
    IN  IF FLess(detCov, 0) \/ (detCov = 0 /\ FLess(detUV, 0))
        THEN IF FLess(svd.singularValues[2], svd.singularValues[1])
             THEN <<<<1, 0>>, <<0, -1>>>>
             ELSE <<<<-1, 0>>, <<0, 1>>>>
        ELSE Identity2

\* The scale c (shape.cpp:57-60), with the numbers it divided by.  1.f / sFrom *
\* trace is the quotient trace / sFrom.
similarityScale(sFrom, d, s) ==
    IF sFrom # NaN /\ sFrom > 0
    THEN [c |-> FDiv(Trace22(Mul22(d, s)), sFrom), divisors |-> {sFrom}]
    ELSE [c |-> 1, divisors |-> {}]

\* estimateSimilarityTransform(from, to): the 2 x 2 linear part and the translation
\* of the returned AffineCompact2f, and the numbers the call divided by.  Each step
\* hands the locals of the function to the next: ret is shape.cpp:62-68, scaled
\* 56-60, corrected 45-54, decomposed 39-42, centered 32-37.
estimateSimilarityTransform(from, to) ==
    LET ret(meanFrom, meanTo, rot, sc) ==
            [linear |-> Scale22(sc.c, rot),
             translation |-> VSub(meanTo, MulVec(Scale22(sc.c, rot), meanFrom)),
             divisors |-> {Cols(from), Cols(to)} \cup sc.divisors]
        scaled(meanFrom, meanTo, sFrom, svd, s) ==
            ret(meanFrom, meanTo,
                Mul22(Mul22(Transpose22(svd.matrixU), s), svd.matrixV),
                similarityScale(sFrom,
                                <<<<svd.singularValues[1], 0>>, <<0, svd.singularValues[2]>>>>,
                                s))
        corrected(meanFrom, meanTo, cov, sFrom, svd) ==
            scaled(meanFrom, meanTo, sFrom, svd, reflectionCorrection(cov, svd))
        decomposed(meanFrom, meanTo, cov, sFrom) ==
            corrected(meanFrom, meanTo, cov, sFrom, jacobiSvd(cov))
        centered(meanFrom, meanTo, centeredFrom, centeredTo) ==
            decomposed(meanFrom, meanTo,
                       Div22(MulTransposed(centeredFrom, centeredTo), Cols(from)),
                       FDiv(SquaredNorm(centeredFrom), Cols(from)))
        means(meanFrom, meanTo) ==
            centered(meanFrom, meanTo, ColwiseSub(from, meanFrom), ColwiseSub(to, meanTo))
    IN  means(RowwiseMean(from), RowwiseMean(to))

\* The covariance estimateSimilarityTransform hands to the SVD (shape.cpp:35-36)
covariance(from, to) ==
    Div22(MulTransposed(ColwiseSub(from, RowwiseMean(from)), ColwiseSub(to, RowwiseMean(to))),
          Cols(from))

\* The test of shape.cpp:80 gone wrong: a landmark as close as the best replaces it.
closerOrEqual(d2, bestD2) == ~FLess(bestD2, d2) /\ d2 # NaN

\* The test of shape.cpp:80
closer(d2, bestD2) == FLess(d2, bestD2)

\* The loop of findClosestLandmarkIndex from landmark i on (shape.cpp:78-84)
RECURSIVE closestFrom(_, _, _, _, _)
closestFrom(s, x, i, bestLandmark, bestD2) ==
    IF i >= Cols(s)
    THEN bestLandmark
    ELSE LET d2 == SquaredNorm2(VSub(Col(s, i), x))
         IN  IF closer(d2, bestD2)
             THEN closestFrom(s, x, i + 1, i, d2)
             ELSE closestFrom(s, x, i + 1, bestLandmark, bestD2)

\* findClosestLandmarkIndex(s, x)
findClosestLandmarkIndex(s, x) == closestFrom(s, x, 0, -1, FLT_MAX)

\* shapeRelativePixelCoordinates(s, abscoords, relcoords, closestLandmarks): the two outputs
shapeRelativePixelCoordinates(s, abscoords) ==
    LET outputs(closest) ==
            [relcoords |-> AsSeq([i \in 1..Len(abscoords) |->
                                    VSub(abscoords[i], Col(s, closest[i]))]),
             closestLandmarks |-> closest]
    IN  outputs(AsSeq([i \in 1..Len(abscoords) |-> findClosestLandmarkIndex(s, abscoords[i])]))

----------------------------------------------------------------------------
(* Collaborators of the Regressor: the image lookup and the regression     *)
(* tree.                                                                   *)

\* The pixel at column p[1], row p[2] of the two images of the data set; an Image is
\* its number, 1 or 2.
Pixel(img, p) ==
    IF img = 1 THEN p[1] + 2 * p[2] ELSE IF p[1] >= 2 THEN 9 ELSE 1

\* readImage(img, coords, intensities): one intensity per coordinate; a coordinate
\* outside the image reads 0.
readImage(img, coords) ==
    AsSeq([i \in 1..Len(coords) |->
            IF coords[i][1] \in 0..ImgMax /\ coords[i][2] \in 0..ImgMax
            THEN Pixel(img, coords[i])
            ELSE 0])

\* A default-constructed Tree (what vector::resize appends)
EmptyTree == [split |-> FALSE, px1 |-> 0, px2 |-> 0, threshold |-> 0, leaves |-> <<>>]

RECURSIVE MSum(_, _)
MSum(acc, ms) == IF ms = <<>> THEN acc ELSE MSum(MAdd(acc, Head(ms)), Tail(ms))

\* The value of a leaf: the mean residual of the samples routed to it, zero if none
leafValue(samples, numLandmarks) ==
    IF samples = <<>>
    THEN Zero(numLandmarks)
    ELSE MDivScalar(MSum(Zero(numLandmarks),
                         AsSeq([i \in 1..Len(samples) |-> samples[i].residual])),
                    Len(samples))

\* The split test of a node on one sample's intensities
goesRight(test, intensities) ==
    intensities[test.px1 + 1] - intensities[test.px2 + 1] > test.threshold

\* Tree::fit(tt) with maxTreeDepth 1 and one candidate split per node, the candidate
\* being `test`: a node of fewer than two samples is a leaf.
treeFit(tt, test) ==
    IF Len(tt.samples) < 2
    THEN [EmptyTree EXCEPT !.leaves = <<leafValue(tt.samples, tt.numLandmarks)>>]
    ELSE [split |-> TRUE, px1 |-> test.px1, px2 |-> test.px2, threshold |-> test.threshold,
          leaves |-> <<leafValue(SelectSeq(tt.samples, LAMBDA sm : ~goesRight(test, sm.intensities)),
                                 tt.numLandmarks),
                       leafValue(SelectSeq(tt.samples, LAMBDA sm : goesRight(test, sm.intensities)),
                                 tt.numLandmarks)>>]

\* Tree::predict(intensities)
treePredict(tree, intensities) ==
    IF ~tree.split
    THEN tree.leaves[1]
    ELSE IF goesRight(tree, intensities) THEN tree.leaves[2] ELSE tree.leaves[1]

\* Tree::save and Tree::load: the tree as an io::Tree table and back
treeSave(tree) ==
    [split |-> <<tree.px1, tree.px2, tree.threshold>>, isLeaf |-> ~tree.split, means |-> tree.leaves]

treeLoad(fbs) ==
    [split |-> ~fbs.isLeaf, px1 |-> fbs.split[1], px2 |-> fbs.split[2],
     threshold |-> fbs.split[3], leaves |-> fbs.means]

\* io::toFbs and io::fromFbs of a 2 x n float matrix: rows, cols and the
\* coefficients column by column.
toFbs(m) ==
    [rows |-> 2, cols |-> Len(m),
     data |-> AsSeq([i \in 1..(2 * Len(m)) |-> m[(i + 1) \div 2][2 - (i % 2)]])]

fromFbs(f) == AsSeq([i \in 1..f.cols |-> <<f.data[2 * i - 1], f.data[2 * i]>>])

\* io::toFbs and io::fromFbs of an Eigen::VectorXi (n x 1)
toFbsI(v) == [rows |-> Len(v), cols |-> 1, data |-> v]

fromFbsI(f) == AsSeq([i \in 1..f.rows |-> f.data[i]])

----------------------------------------------------------------------------
(* regressor.cpp                                                           *)

\* Regressor::data as data() leaves it: the matrices and the forest empty,
\* learningRate not initialised (lr is what the memory held).
newData(lr) ==
    [shapeRelativePixelCoordinates |-> <<>>, closestShapeLandmark |-> <<>>,
     meanResidual |-> <<>>, meanShape |-> <<>>, trees |-> <<>>, learningRate |-> lr]

\* The six fields of a Regressor::data
Fields(d) ==
    <<d.shapeRelativePixelCoordinates, d.closestShapeLandmark, d.meanResidual,
      d.meanShape, d.trees, d.learningRate>>

\* std::vector<Tree>::resize(n)
resize(trees, n) == AsSeq([i \in 1..n |-> IF i <= Len(trees) THEN trees[i] ELSE EmptyTree])

\* learningRate * m
shrink(lr, m) ==
    AsSeq([i \in 1..Len(m) |-> <<FDiv(FMul(lr, m[i][1]), LrDen), FDiv(FMul(lr, m[i][2]), LrDen)>>])

\* A draw of std::uniform_real_distribution<float>(0.f, w), a number of [0, w), from
\* the raw draw u of 0..RndMax
uniform(u, w) == (u * w) \div (RndMax + 1)

\* Regressor::sampleCoordinates(t): draw i takes the random source's next two numbers
sampleCoordinates(t) ==
    LET minC == RowwiseMinCoeff(t.meanShape)
        maxC == RowwiseMaxCoeff(t.meanShape)
        numCoords == t.trainingData.params.numRandomPixelCoordinates
        dx(i) == uniform(t.trainingData.rnd.u[2 * i - 1], maxC[1] - minC[1])
        dy(i) == uniform(t.trainingData.rnd.u[2 * i], maxC[2] - minC[2])
    IN  AsSeq([i \in 1..numCoords |-> <<minC[1] + dx(i), maxC[2] + dy(i)>>])

\* readPixelIntensities with a slip: coords is a reference to the regressor's
\* shape-relative coordinates, so the call leaves the absolute ones in their place.
readPixelIntensitiesInPlace(data, trans, s, img) ==
    LET coords == AsSeq([i \in 1..Len(data.shapeRelativePixelCoordinates) |->
                    VAdd(MulVec(trans.linear, data.shapeRelativePixelCoordinates[i]),
                         Col(s, data.closestShapeLandmark[i]))])
    IN  [intensities |-> readImage(img, coords),
         data |-> [data EXCEPT !.shapeRelativePixelCoordinates = coords]]

\* Regressor::readPixelIntensities(t, s, img, intensities): the intensities, and the
\* regressor's data after the call (the method reads it through a non-const reference).
readPixelIntensities(data, trans, s, img) ==
    LET coords == AsSeq([i \in 1..Len(data.shapeRelativePixelCoordinates) |->
                    VAdd(MulVec(trans.linear, data.shapeRelativePixelCoordinates[i]),
                         Col(s, data.closestShapeLandmark[i]))])
    IN  [intensities |-> readImage(img, coords), data |-> data]

\* One turn of the loop of regressor.cpp:123-131, on the sample smp.  st holds the
\* regressor's data, the tree training's samples and the numbers divided by so far.
fitSample(t, smp, st) ==
    LET turn(residual, trans, rp) ==
            [data |-> [rp.data EXCEPT !.meanResidual = MAdd(rp.data.meanResidual, residual)],
             samples |-> Append(st.samples,
                                [residual |-> residual, intensities |-> rp.intensities]),
             divisors |-> st.divisors \cup trans.divisors]
        read(residual, trans) ==
            turn(residual, trans,
                 readPixelIntensities(st.data, trans, smp.estimate,
                                      t.trainingData.images[smp.idx + 1]))
    IN  read(MSub(t.trainingData.shapes[smp.idx + 1], smp.estimate),
             estimateSimilarityTransform(t.meanShape, smp.estimate))

\* The loop of regressor.cpp:123-131 from sample i on
RECURSIVE fitSamples(_, _, _)
fitSamples(t, i, st) ==
    IF i >= Len(t.samples)
    THEN st
    ELSE fitSamples(t, i + 1, fitSample(t, t.samples[i + 1], st))

\* The update of regressor.cpp:138-142 without the shrinkage of the previous tree
boostResidualUnshrunk(data, k, sm) ==
    IF k = 0
    THEN MSub(sm.residual, data.meanResidual)
    ELSE MSub(sm.residual, treePredict(At(data.trees, k - 1), sm.intensities))

\* The update of one sample's working residual before tree k is fit (regressor.cpp:138-142)
boostResidual(data, k, sm) ==
    IF k = 0
    THEN MSub(sm.residual, data.meanResidual)
    ELSE MSub(sm.residual,
              shrink(data.learningRate, treePredict(At(data.trees, k - 1), sm.intensities)))

\* One turn of the loop of regressor.cpp:134-145, for tree k.  st holds the
\* regressor's data, the tree training's samples and the log of the calls of Tree::fit.
fitTree(t, k, st) ==
    LET turn(samples) ==
            [data |-> [st.data EXCEPT
                          !.trees[k + 1] = treeFit([numLandmarks |-> t.numLandmarks,
                                                    samples |-> samples],
                                                   t.trainingData.rnd.splits[k + 1])],
             samples |-> samples,
             log |-> Append(st.log, [k |-> k, samples |-> samples])]
    IN  turn(AsSeq([i \in 1..Len(st.samples) |->
                      [st.samples[i] EXCEPT
                          !.residual = boostResidual(st.data, k, st.samples[i])]]))

\* The loop of regressor.cpp:134-145 from tree k on
RECURSIVE fitTrees(_, _, _)
fitTrees(t, k, st) ==
    IF k >= t.trainingData.params.numTrees
    THEN st
    ELSE fitTrees(t, k + 1, fitTree(t, k, st))

\* A fit that reports whether it trained on any sample
fitReturnSuccess(t) == Len(t.samples) > 0

\* The value fit returns (regressor.cpp:149)
fitReturn(t) == FALSE

\* Regressor::fit(t) on a regressor holding `data`: the data after the call, the value
\* returned, the log of the calls of Tree::fit and the numbers divided by.
\* Each step hands the state to the next: returned is regressor.cpp:149, boosted
\* 132-145, summed 122-131, encoded 116-119; the call itself is 105-108.
fit(data, t) ==
    LET returned(s3, s4) ==
            [data |-> s4.data,
             ret |-> fitReturn(t),
             log |-> s4.log,
             divisors |-> s3.divisors \cup {Len(t.samples)}]
        boosted(s3) ==
            returned(s3,
                     fitTrees(t, 0,
                         [data |-> [s3.data EXCEPT
                                       !.meanResidual = MDivScalar(s3.data.meanResidual,
                                                                   Len(t.samples))],
                          samples |-> s3.samples,
                          log |-> <<>>]))
        summed(d1, rel) ==
            boosted(fitSamples(t, 0,
                        [data |-> [d1 EXCEPT !.shapeRelativePixelCoordinates = rel.relcoords,
                                             !.closestShapeLandmark = rel.closestLandmarks,
                                             !.meanResidual = Zero(t.numLandmarks)],
                         samples |-> <<>>,
                         divisors |-> {}]))
        encoded(d1) ==
            summed(d1, shapeRelativePixelCoordinates(t.meanShape, sampleCoordinates(t)))
    IN  encoded([data EXCEPT !.learningRate = t.trainingData.params.learningRate,
                             !.trees = resize(data.trees, t.trainingData.params.numTrees),
                             !.meanShape = t.meanShape])

\* sr += trees[i].predict(intensities), the learning rate forgotten
accumulateUnshrunk(sr, data, i, intensities) ==
    MAdd(sr, treePredict(At(data.trees, i), intensities))

\* sr += trees[i].predict(intensities) * data.learningRate (regressor.cpp:198)
accumulate(sr, data, i, intensities) ==
    MAdd(sr, shrink(data.learningRate, treePredict(At(data.trees, i), intensities)))

\* The loop of regressor.cpp:197-199 from tree i on
RECURSIVE predictLoop(_, _, _, _)
predictLoop(sr, data, i, intensities) ==
    IF i >= Len(data.trees)
    THEN sr
    ELSE predictLoop(accumulate(sr, data, i, intensities), data, i + 1, intensities)

\* Regressor::predict(img, shape): the residual returned and the data after the call
predict(data, img, shape) ==
    LET loop(rp) ==
            [sr |-> predictLoop(rp.data.meanResidual, rp.data, 0, rp.intensities),
             data |-> rp.data]
    IN  loop(readPixelIntensities(data, estimateSimilarityTransform(data.meanShape, shape),
                                  shape, img))

\* Regressor::data::save(fbb): the io::Regressor table written
save(data) ==
    [closestLandmarks |-> toFbsI(data.closestShapeLandmark),
     pixelCoordinates |-> toFbs(data.shapeRelativePixelCoordinates),
     meanShapeResidual |-> toFbs(data.meanResidual),
     meanShape |-> toFbs(data.meanShape),
     forest |-> AsSeq([i \in 1..Len(data.trees) |-> treeSave(data.trees[i])]),
     learningRate |-> data.learningRate]

\* load without regressor.cpp:72: the learning rate is not read back
loadKeepsLearningRate(data, fbs) ==
    [data EXCEPT !.closestShapeLandmark = fromFbsI(fbs.closestLandmarks),
                 !.shapeRelativePixelCoordinates = fromFbs(fbs.pixelCoordinates),
                 !.meanResidual = fromFbs(fbs.meanShapeResidual),
                 !.meanShape = fromFbs(fbs.meanShape),
                 !.trees = AsSeq([i \in 1..Len(fbs.forest) |-> treeLoad(fbs.forest[i])])]

\* Regressor::data::load(fbs) on a regressor holding `data`: the data after the call
load(data, fbs) ==
    [data EXCEPT !.closestShapeLandmark = fromFbsI(fbs.closestLandmarks),
                 !.shapeRelativePixelCoordinates = fromFbs(fbs.pixelCoordinates),
                 !.meanResidual = fromFbs(fbs.meanShapeResidual),
                 !.meanShape = fromFbs(fbs.meanShape),
                 !.learningRate = fbs.learningRate,
                 !.trees = AsSeq([i \in 1..Len(fbs.forest) |-> treeLoad(fbs.forest[i])])]

\* Regressor(const Regressor &other) sharing other's data instead of copying it
copyConstructShared(h, lv, src) == [cell |-> src, heap |-> h, live |-> lv]

\* Regressor(const Regressor &other): _data(new data(*other._data)).  h is the heap,
\* lv the allocated cells, src other's cell: the new object's cell, the heap and the
\* allocated cells after the call.
copyConstruct(h, lv, src) ==
    LET c == CHOOSE c \in DOMAIN h : c \notin lv
    IN  [cell |-> c, heap |-> [h EXCEPT ![c] = h[src]], live |-> lv \cup {c}]

----------------------------------------------------------------------------
(* The objects and the inputs of the model.                                *)

Regs == {"A", "B"}

Cells == {"c1", "c2"}

Null == "null"

\* What an uninitialised float may hold
Indeterminate == {0, 1}

\* The content of a cell that is not allocated
Freed == newData(0)

Square(o, w) == <<o, <<o[1] + w, o[2]>>, <<o[1] + w, o[2] + w>>, <<o[1], o[2] + w>>>>

\* A shape mirrored about a vertical axis: landmarks 0 and 1, 2 and 3 change places
Mirrored(sq) == <<sq[2], sq[1], sq[4], sq[3]>>

\* The data set: two images (Pixel) and their ground-truth shapes
TrainingShapes == <<Square(<<16, 16>>, 4), Square(<<0, 0>>, 8)>>

SampleA == [idx |-> 0, estimate |-> Square(<<0, 0>>, 2)]

SampleB == [idx |-> 1, estimate |-> Square(<<1, 1>>, 2)]

SampleC == [idx |-> 0, estimate |-> Mirrored(Square(<<1, 0>>, 2))]

SampleSets == {<<>>, <<SampleA, SampleB, SampleC>>}

\* The split tests a tree may draw
SplitLess == [px1 |-> 0, px2 |-> 1, threshold |-> 0]

SplitMore == [px1 |-> 1, px2 |-> 0, threshold |-> 1]

\* The split tests the trees of a stage draw, one per tree: two runs of the random source
SplitRuns(numTrees) ==
    {AsSeq([k \in 1..numTrees |-> IF k % 2 = 1 THEN run[1] ELSE run[2]]) :
        run \in {<<SplitLess, SplitMore>>, <<SplitMore, SplitLess>>}}

\* The uniform draws of three runs of the random source
RndU == <<<<0, 0, 2, 1, 1, 2, 0, 1>>, <<1, 2, 1, 0, 2, 2, 0, 0>>, <<2, 1, 0, 2, 1, 0, 1, 1>>>>

\* The stages trained: a mean shape, a learning rate, a run of the random source
StageConfigs ==
    {[meanShape |-> Square(<<0, 0>>, 2), learningRate |-> 1, u |-> RndU[1]],
     [meanShape |-> Square(<<2, 0>>, 2), learningRate |-> LrDen, u |-> RndU[2]],
     [meanShape |-> Square(<<0, 0>>, 4), learningRate |-> 1, u |-> RndU[3]]}

\* A RegressorTraining with its TrainingData
MkTraining(meanShape, samples, learningRate, numTrees, numCoords, u, splits) ==
    [meanShape |-> meanShape,
     numLandmarks |-> Len(meanShape),
     samples |-> samples,
     trainingData |->
        [shapes |-> TrainingShapes,
         images |-> <<1, 2>>,
         params |-> [learningRate |-> learningRate, numTrees |-> numTrees,
                     numRandomPixelCoordinates |-> numCoords],
         rnd |-> [u |-> u, splits |-> splits]]]

NoTraining == MkTraining(<<>>, <<>>, 0, 0, 0, <<>>, <<>>)

Trainings ==
    UNION {{MkTraining(cfg.meanShape, smp, cfg.learningRate, nt, NumPixels, cfg.u, sp) :
                cfg \in StageConfigs, smp \in SampleSets, sp \in SplitRuns(nt)} :
           nt \in 1..MaxTrees}

\* The trainings of the runs that save, load and copy
PersistTrainings ==
    {MkTraining(Square(<<0, 0>>, 2), <<SampleA, SampleB>>, 1, 1, NumPixels, RndU[1],
                <<SplitLess>>),
     MkTraining(Square(<<2, 0>>, 2), <<SampleA, SampleC>>, LrDen, 2, NumPixels, RndU[2],
                <<SplitMore, SplitLess>>),
     MkTraining(Square(<<0, 0>>, 4), <<>>, 1, 1, NumPixels, RndU[3], <<SplitLess>>)}

\* The shapes predict is asked about
QueryShapes == {Square(<<0, 0>>, 2), Square(<<1, 1>>, 4), Mirrored(Square(<<1, 0>>, 2))}

\* The image and the shape predict is asked about in the runs that save, load and copy
PersistQueries == {<<2, Square(<<1, 1>>, 4)>>}

Points == (0..MaxCoord) \X (0..MaxCoord)

GeomShapes(n) == [1..n -> Points]

\* A shape moved by a similarity of the plane
Moved(s, k, d) == AsSeq([i \in 1..Len(s) |-> <<k * s[i][1] + d[1], k * s[i][2] + d[2]>>])

NoArg == [fn |-> "none", s |-> <<>>, to |-> <<>>, x |-> <<0, 0>>, u |-> <<>>]

\* The similarities a shape is moved by: none, a scaling with a shift, a half turn
Moves == {<<1, <<0, 0>>>>, <<2, <<1, 0>>>>, <<-1, <<MaxCoord, 0>>>>}

\* The largest odd float: n of it add up to a number of more than 24 bits
LargeCoord == ExactBelow - 1

\* n points on a horizontal line, from o at distance k of each other
Row(n, o, k) == AsSeq([i \in 1..n |-> <<o[1] + k * (i - 1), o[2]>>])

\* The arguments of the geometry functions: any shape with any query point; a shape
\* with no variance against any shape, also one at a large coordinate against a row
\* of points; any shape against itself moved, as far as their covariance is diagonal;
\* any mean shape, scaled for the draws to fall on integers, with any two draws.
GeomArg(a) ==
    \/ \E n \in 1..MaxL :
          \/ \E s \in GeomShapes(n), x \in Points :
                a = [NoArg EXCEPT !.fn = "findClosest", !.s = s, !.x = x]
          \/ \E p \in Points, to \in GeomShapes(n) :
                a = [NoArg EXCEPT !.fn = "estimate", !.s = AsSeq([i \in 1..n |-> p]), !.to = to]
          \/ \E s \in GeomShapes(n), m \in Moves :
                /\ ~(\A i \in 1..n : s[i] = s[1])
                /\ IsDiagonal(covariance(s, Moved(s, m[1], m[2])))
                /\ a = [NoArg EXCEPT !.fn = "estimate", !.s = s, !.to = Moved(s, m[1], m[2])]
          \/ \E s \in GeomShapes(n), u \in [1..2 -> 0..RndMax] :
                a = [NoArg EXCEPT !.fn = "sample", !.s = Moved(s, RndMax + 1, <<0, 0>>), !.u = u]
    \/ \E n \in 1..MaxCoincident, y \in {0, LargeCoord}, o \in Points, k \in 0..MaxCoord :
          /\ IsDiagonal(covariance(AsSeq([i \in 1..n |-> <<LargeCoord, y>>]), Row(n, o, k)))
          /\ a = [NoArg EXCEPT !.fn = "estimate", !.s = AsSeq([i \in 1..n |-> <<LargeCoord, y>>]),
                               !.to = Row(n, o, k)]

NoTransform == [linear |-> Identity2, translation |-> <<0, 0>>, divisors |-> {}]

NoCall ==
    [op |-> "none", reg |-> "none", ok |-> FALSE, sr |-> <<>>, index |-> -1, coords |-> <<>>,
     trans |-> NoTransform, divisors |-> {}, log |-> <<>>, img |-> 0, shape |-> <<>>,
     t |-> NoTraining, before |-> Freed]

----------------------------------------------------------------------------
(* The state machine.                                                      *)

\* Regressor object A constructed by Regressor(); no call made yet.
InitObjects ==
    /\ ptr = [r \in Regs |-> IF r = "A" THEN "c1" ELSE Null]
    /\ live = {"c1"}
    /\ \E lr \in Indeterminate : heap = [c \in Cells |-> IF c = "c1" THEN newData(lr) ELSE Freed]
    /\ saved = <<>>
    /\ last = NoCall

Init == InitObjects /\ arg = NoArg

InitGeom == InitObjects /\ GeomArg(arg)

\* r.fit(t)
CallFit(r, t) ==
    /\ ptr[r] # Null
    /\ \E res \in {fit(heap[ptr[r]], t)} :
           /\ heap' = [heap EXCEPT ![ptr[r]] = res.data]
           /\ last' = [NoCall EXCEPT !.op = "fit", !.reg = r, !.ok = res.ret, !.log = res.log,
                                     !.divisors = res.divisors, !.t = t]
    /\ UNCHANGED <<ptr, live, saved, arg>>

\* r.predict(img, shape), on a regressor that holds a mean shape of shape's size
CallPredict(r, img, shape) ==
    /\ ptr[r] # Null
    /\ Len(heap[ptr[r]].meanShape) = Len(shape)
    /\ \E res \in {predict(heap[ptr[r]], img, shape)} :
           /\ heap' = [heap EXCEPT ![ptr[r]] = res.data]
           /\ last' = [NoCall EXCEPT !.op = "predict", !.reg = r, !.sr = res.sr, !.img = img,
                                     !.shape = shape]
    /\ UNCHANGED <<ptr, live, saved, arg>>

\* r.save(fbb)
CallSave(r) ==
    /\ ptr[r] # Null
    /\ saved' = <<[fbs |-> save(heap[ptr[r]]), src |-> heap[ptr[r]]]>>
    /\ last' = [NoCall EXCEPT !.op = "save", !.reg = r]
    /\ UNCHANGED <<ptr, heap, live, arg>>

\* r.load(fbs) of the flatbuffer last saved
CallLoad(r) ==
    /\ ptr[r] # Null
    /\ saved # <<>>
    /\ heap' = [heap EXCEPT ![ptr[r]] = load(heap[ptr[r]], saved[1].fbs)]
    /\ last' = [NoCall EXCEPT !.op = "load", !.reg = r, !.before = heap[ptr[r]]]
    /\ UNCHANGED <<ptr, live, saved, arg>>

\* Regressor r: a new object
Construct(r, lr) ==
    /\ ptr[r] = Null
    /\ \E c \in {CHOOSE c \in Cells : c \notin live} :
           /\ ptr' = [ptr EXCEPT ![r] = c]
           /\ heap' = [heap EXCEPT ![c] = newData(lr)]
           /\ live' = live \cup {c}
    /\ last' = [NoCall EXCEPT !.op = "construct", !.reg = r]
    /\ UNCHANGED <<saved, arg>>

\* Regressor r(other): a new object, a copy of other
CopyConstruct(r, other) ==
    /\ ptr[r] = Null
    /\ ptr[other] # Null
    /\ \E res \in {copyConstruct(heap, live, ptr[other])} :
           /\ ptr' = [ptr EXCEPT ![r] = res.cell]
           /\ heap' = res.heap
           /\ live' = res.live
    /\ last' = [NoCall EXCEPT !.op = "copy", !.reg = r]
    /\ UNCHANGED <<saved, arg>>

\* ~Regressor() of r: its data is freed
Destroy(r) ==
    /\ ptr[r] # Null
    /\ ptr' = [ptr EXCEPT ![r] = Null]
    /\ heap' = [heap EXCEPT ![ptr[r]] = Freed]
    /\ live' = live \ {ptr[r]}
    /\ last' = [NoCall EXCEPT !.op = "destroy", !.reg = r]
    /\ UNCHANGED <<saved, arg>>

\* findClosestLandmarkIndex(arg.s, arg.x)
CallFindClosest ==
    /\ arg.fn = "findClosest"
    /\ last.op = "none"
    /\ last' = [NoCall EXCEPT !.op = "findClosest", !.index = findClosestLandmarkIndex(arg.s, arg.x)]
    /\ UNCHANGED <<ptr, heap, live, saved, arg>>

\* estimateSimilarityTransform(arg.s, arg.to)
CallEstimate ==
    /\ arg.fn = "estimate"
    /\ last.op = "none"
    /\ last' = [NoCall EXCEPT !.op = "estimate", !.trans = estimateSimilarityTransform(arg.s, arg.to)]
    /\ UNCHANGED <<ptr, heap, live, saved, arg>>

\* sampleCoordinates(t) for one coordinate, t holding mean shape arg.s and draws arg.u
CallSample ==
    /\ arg.fn = "sample"
    /\ last.op = "none"
    /\ last' = [NoCall EXCEPT
                  !.op = "sample",
                  !.coords = sampleCoordinates(MkTraining(arg.s, <<>>, 1, 1, 1, arg.u, <<>>))]
    /\ UNCHANGED <<ptr, heap, live, saved, arg>>

\* One regressor, trained and asked to predict
Next ==
    \/ \E t \in Trainings : CallFit("A", t)
    \/ \E img \in 1..2, shape \in QueryShapes : CallPredict("A", img, shape)

Spec == Init /\ [][Next]_vars

\* Two regressors, B always made as a copy of A: trained, saved, loaded, destroyed,
\* asked to predict
NextPersist ==
    \/ \E r \in Regs, t \in PersistTrainings : CallFit(r, t)
    \/ \E r \in Regs, q \in PersistQueries : CallPredict(r, q[1], q[2])
    \/ \E r \in Regs : CallSave(r)
    \/ \E r \in Regs : CallLoad(r)
    \/ \E lr \in Indeterminate : Construct("A", lr)
    \/ CopyConstruct("B", "A")
    \/ \E r \in Regs : Destroy(r)

SpecPersist == Init /\ [][NextPersist]_vars

\* The geometry functions, each called on the argument drawn
NextGeom ==
    \/ CallFindClosest
    \/ CallEstimate
    \/ CallSample

SpecGeom == InitGeom /\ [][NextGeom]_vars

----------------------------------------------------------------------------
(* The claims.                                                             *)

\* The least and the greatest of a non-empty set of integers
MinOf(S) == CHOOSE v \in S : \A w \in S : v <= w

MaxOf(S) == CHOOSE v \in S : \A w \in S : v >= w

\* p lies in the axis-aligned bounding box of shape s
InBoundingBox(s, p) ==
    /\ MinOf({s[i][1] : i \in 1..Len(s)}) <= p[1]
    /\ p[1] <= MaxOf({s[i][1] : i \in 1..Len(s)})
    /\ MinOf({s[i][2] : i \in 1..Len(s)}) <= p[2]
    /\ p[2] <= MaxOf({s[i][2] : i \in 1..Len(s)})

\* Claim C1: every coordinate sampleCoordinates returns lies inside the axis-aligned
\* bounding box of the mean shape, on both axes.  (The code adds the vertical draw to
\* maxC.y(), so this fails.)
C1_SampledInsideBoundingBox ==
    last.op = "sample" =>
        \A i \in 1..Len(last.coords) : InBoundingBox(arg.s, last.coords[i])

\* Claim C2: a fit on an empty sample set leaves all six fields of the regressor as
\* they were and divides by no zero.  (The code sets the fields and divides the mean
\* residual by the sample count before looking at it, so this fails.)
C2_EmptyFitChangesNothing ==
    [][\A r \in Regs :
          (last'.op = "fit" /\ last'.reg = r /\ last'.t.samples = <<>>) =>
              /\ ptr'[r] = ptr[r]
              /\ Fields(heap'[ptr[r]]) = Fields(heap[ptr[r]])
              /\ 0 \notin last'.divisors]_vars

\* The squared distance of landmark j (0-based) of the shape drawn to the point drawn
ArgDistance2(j) ==
    (arg.s[j + 1][1] - arg.x[1]) * (arg.s[j + 1][1] - arg.x[1])
    + (arg.s[j + 1][2] - arg.x[2]) * (arg.s[j + 1][2] - arg.x[2])

RECURSIVE ShrunkPredictions(_, _, _)
ShrunkPredictions(d, intensities, k) ==
    IF k = 0
    THEN Zero(Len(d.meanShape))
    ELSE MAdd(ShrunkPredictions(d, intensities, k - 1),
              shrink(d.learningRate, treePredict(d.trees[k], intensities)))

\* Claim C4: within one fit the trees are fit in index order, and the working residual
\* of every sample when tree k is fit is (ground truth - estimate) - meanResidual -
\* learningRate * (the predictions of trees 0..k-1 on the sample's cached intensities).
C4_WorkingResidualWhenTreeIsFit ==
    last.op = "fit" =>
        LET d == heap[ptr[last.reg]]
            t == last.t
        IN  /\ Len(last.log) = t.trainingData.params.numTrees
            /\ \A k \in 0..(Len(last.log) - 1) :
                  /\ last.log[k + 1].k = k
                  /\ Len(last.log[k + 1].samples) = Len(t.samples)
                  /\ \A i \in 1..Len(t.samples) :
                        last.log[k + 1].samples[i].residual =
                            MSub(MSub(MSub(t.trainingData.shapes[t.samples[i].idx + 1],
                                           t.samples[i].estimate),
                                      d.meanResidual),
                                 ShrunkPredictions(d, last.log[k + 1].samples[i].intensities, k))

\* C4's case: a fit of three trees or more on samples, where the second and the third
\* tree each found a sample's residual changed by the tree before.
C4_Witness ==
    /\ last.op = "fit"
    /\ Len(last.log) >= 3
    /\ \E i \in 1..Len(last.t.samples) :
          /\ last.log[2].samples[i].residual # last.log[1].samples[i].residual
          /\ last.log[3].samples[i].residual # last.log[2].samples[i].residual

\* The intensities predict extracts for the last query from the data d
QueryIntensities(d) ==
    readImage(last.img,
              AsSeq([i \in 1..Len(d.shapeRelativePixelCoordinates) |->
                        VAdd(MulVec(estimateSimilarityTransform(d.meanShape, last.shape).linear,
                                    d.shapeRelativePixelCoordinates[i]),
                             Col(last.shape, d.closestShapeLandmark[i]))]))

\* Claim C5: predict returns meanResidual + learningRate * (the predictions of all the
\* stored trees on the intensities extracted for the query): every tree once, shrunk by
\* learningRate, and meanResidual once, not shrunk.
C5_PredictIsMeanPlusShrunkTrees ==
    last.op = "predict" =>
        LET d == heap[ptr[last.reg]]
        IN  last.sr = MAdd(d.meanResidual, ShrunkPredictions(d, QueryIntensities(d), Len(d.trees)))

\* C5's case: a prediction by two trees or more, shrunk by a learning rate below 1,
\* whose trees add something to the mean residual.
C5_Witness ==
    /\ last.op = "predict"
    /\ Len(heap[ptr[last.reg]].trees) >= 2
    /\ heap[ptr[last.reg]].learningRate < LrDen
    /\ last.sr # heap[ptr[last.reg]].meanResidual
    /\ \A i \in 1..Len(last.sr) : last.sr[i][1] # NaN

\* Claim C6: a call of predict (and so of readPixelIntensities) leaves the six fields of
\* the regressor as they were, so that every query is answered after the call as it
\* would have been before it.
C6_PredictChangesNothing ==
    [][\A r \in Regs :
          (last'.op = "predict" /\ last'.reg = r) =>
              /\ ptr'[r] = ptr[r]
              /\ Fields(heap'[ptr[r]]) = Fields(heap[ptr[r]])
              /\ \A img \in 1..2, shape \in QueryShapes :
                    predict(heap'[ptr[r]], img, shape).sr = predict(heap[ptr[r]], img, shape).sr]_vars

\* C6's case: a prediction by a regressor trained on samples, with trees.
C6_Witness ==
    /\ last.op = "predict"
    /\ Len(heap[ptr[last.reg]].trees) >= 2
    /\ \A i \in 1..Len(last.sr) : last.sr[i][1] # NaN

\* Claim C7: after a load of a saved regressor, the loading regressor's six fields are
\* those of the regressor saved (the trees in the same number and order), it predicts
\* the same, and nothing of what it held before is left.
C7_SaveLoadRoundTrip ==
    last.op = "load" =>
        /\ Fields(heap[ptr[last.reg]]) = Fields(saved[1].src)
        /\ \A q \in PersistQueries :
              Len(saved[1].src.meanShape) = Len(q[2]) =>
                  predict(heap[ptr[last.reg]], q[1], q[2]).sr = predict(saved[1].src, q[1], q[2]).sr

\* C7's case: a trained regressor was saved, and loaded into a regressor that held
\* more trees, another learning rate and another mean shape.
C7_Witness ==
    /\ last.op = "load"
    /\ Len(saved[1].src.trees) >= 1
    /\ Len(last.before.trees) > Len(saved[1].src.trees)
    /\ last.before.learningRate # saved[1].src.learningRate
    /\ last.before.meanShape # saved[1].src.meanShape

\* All the points of shape s are the same point
ZeroVariance(s) == \A i \in 1..Len(s) : s[i] = s[1]

\* Claim C8: for a source shape all of whose points coincide, estimateSimilarityTransform
\* divides by no zero and returns scale 1 with the identity rotation, and as translation
\* the destination's centroid minus the source's.  (The code tests the variance it
\* computed, and that is positive where the sum of the coinciding points was rounded:
\* it then returns the scale it computes from a covariance of rounding errors.)
C8_ZeroVarianceSourceGivesTranslation ==
    (last.op = "estimate" /\ ZeroVariance(arg.s)) =>
        /\ last.trans.linear = Identity2
        /\ last.trans.translation = VSub(RowwiseMean(arg.to), arg.s[1])
        /\ 0 \notin last.trans.divisors

\* Claim C9: a regressor made as a copy shares nothing with its original: a fit or a
\* load on either leaves the other's pointer, six fields and predictions as they were.
C9_CopiesShareNothing ==
    [][\A r \in Regs, o \in Regs :
          (last'.op \in {"fit", "load"} /\ last'.reg = r /\ o # r /\ ptr[o] # Null) =>
              /\ ptr'[o] = ptr[o]
              /\ Fields(heap'[ptr[o]]) = Fields(heap[ptr[o]])
              /\ \A q \in PersistQueries :
                    Len(heap[ptr[o]].meanShape) = Len(q[2]) =>
                        predict(heap'[ptr[o]], q[1], q[2]).sr = predict(heap[ptr[o]], q[1], q[2]).sr]_vars

\* C9's case: the copy B was trained while its original A held another trained state.
C9_Witness ==
    /\ last.op = "fit"
    /\ last.reg = "B"
    /\ ptr["A"] # Null
    /\ Len(heap[ptr["A"]].trees) >= 1
    /\ Fields(heap[ptr["A"]]) # Fields(heap[ptr["B"]])

\* Claim C10: fit returns false on every call, also on one that ran to completion and
\* left the regressor with numTrees fitted trees, the learning rate configured and the
\* stage's mean shape.
C10_FitReturnsFalse ==
    last.op = "fit" =>
        LET d == heap[ptr[last.reg]]
        IN  /\ last.ok = FALSE
            /\ Len(d.trees) = last.t.trainingData.params.numTrees
            /\ \A k \in 1..Len(d.trees) : d.trees[k].leaves # <<>>
            /\ d.learningRate = last.t.trainingData.params.learningRate
            /\ d.meanShape = last.t.meanShape

\* C10's case: a fit on samples that built trees that split.
C10_Witness ==
    /\ last.op = "fit"
    /\ last.t.samples # <<>>
    /\ Len(heap[ptr[last.reg]].trees) >= 2
    /\ \A k \in 1..Len(heap[ptr[last.reg]].trees) : heap[ptr[last.reg]].trees[k].split

====
